---- MODULE Spec2Model ----
(***************************************************************************)
(* DecentralizedLedger of "Part 7 - Build an Encrypted, Decentralized      *)
(* Ledger": a log of secret-shared transfer records, a cached running      *)
(* balance, and the mask-instead-of-branch validation of transact.         *)
(*                                                                         *)
(* A tensor of length n is a function over 0..n-1 (Python indices).  The   *)
(* Python list self.transactions is a sequence, so Python's entry k is     *)
(* transactions[k+1] here.  A shared tensor is a record: the owners that   *)
(* hold its shares and, per slot, the field element the shares add up to.  *)
(***************************************************************************)
EXTENDS Integers, Sequences, FiniteSets, TLC

VARIABLES
    transactions,     \* self.transactions: the log, entry 1 is the seed
    owners,           \* self.owners
    num_accounts,     \* self.num_accounts
    zeros,            \* self.zeros: the cached shared zero vector
    running_balance,  \* self.running_balance
    pc,               \* per caller: the line of transact it stands before
    frame,            \* per caller: the arguments and locals of its transact
    call,             \* the last call that ended: what it was and how it ended
    pre,              \* the log and the running balance when that call began
    ret,              \* what the last compute_balances() call returned
    ncalls,           \* the calls made on the ledger so far
    twin,             \* a second DecentralizedLedger, given the same calls
    simple            \* a SimpleLedger (step 2), given the same calls

vars == <<transactions, owners, num_accounts, zeros, running_balance,
          pc, frame, call, pre, ret, ncalls, twin, simple>>

ledger == <<transactions, owners, num_accounts, zeros, running_balance>>

----------------------------------------------------------------------------
(* Bounds of the model. *)

\* width in bits of the signed domain the shared values live in
BITS == 3
\* calls made on a ledger per run
MaxCalls == 2
\* num_accounts of the ledgers built
AccountCounts == {2, 3}
\* starting_balance of the ledgers built
StartingBalances == -1 .. 2
\* amt of the transact calls made
Amounts == -1 .. 3
\* callers of the ledger
Threads == {1, 2}
\* the workers the ledger is shared between
Workers == {"jp_norgan", "ubz"}

Field == 2 ^ BITS
Half == Field \div 2

\* frm and to of the calls made on a ledger of n accounts: every valid Python
\* index but the most negative ones, and one index past either end's reach
Indices(n) == -1 .. n

----------------------------------------------------------------------------
(* The secret-sharing engine, at its interface. *)

RECURSIVE SumTo(_, _)
SumTo(f, k) == IF k < 0 THEN 0 ELSE f[k] + SumTo(f, k - 1)

encode(x) == x % Field

decode(e) == IF e >= Half THEN e - Field ELSE e

share(v, ws) == [owners |-> ws, enc |-> [i \in DOMAIN v |-> encode(v[i])]]

get(sv) == [i \in DOMAIN sv.enc |-> decode(sv.enc[i])]

secure_add(a, b) ==
    [owners |-> a.owners,
     enc |-> [i \in DOMAIN a.enc |-> (a.enc[i] + b.enc[i]) % Field]]

secure_sub(a, b) ==
    [owners |-> a.owners,
     enc |-> [i \in DOMAIN a.enc |-> (a.enc[i] - b.enc[i]) % Field]]

secure_multiply(a, b) ==
    [owners |-> a.owners,
     enc |-> [i \in DOMAIN a.enc |-> (a.enc[i] * b.enc[i]) % Field]]

secure_less_than(a, b) ==
    [owners |-> a.owners,
     enc |-> [i \in DOMAIN a.enc |->
                 IF decode(a.enc[i]) < decode(b.enc[i]) THEN 1 ELSE 0]]

\* tensor.sum(0): a tensor of one slot
secure_sum(a) ==
    [owners |-> a.owners,
     enc |-> [i \in {0} |-> SumTo(a.enc, Cardinality(DOMAIN a.enc) - 1) % Field]]

\* tensor.expand(n) of a tensor of one slot
expand(a, n) == [owners |-> a.owners, enc |-> [i \in 0 .. n - 1 |-> a.enc[0]]]

\* k - tensor, k a plain number
plain_minus(k, a) ==
    [owners |-> a.owners,
     enc |-> [i \in DOMAIN a.enc |-> (k - a.enc[i]) % Field]]

----------------------------------------------------------------------------
(* The notebook's code. *)

\* sy.ones(num_accounts).long() * starting_balance
initial_balances(n, sb) == [i \in 0 .. n - 1 |-> 1 * sb]

\* a tensor index as Python takes it: negative indices count from the end
IndexOk(i, n) == -n <= i /\ i < n
PyIndex(i, n) == IF i < 0 THEN i + n ELSE i

\* record = sy.zeros(n).long(); record[frm] = -amt; record[to] = amt
transact_record(n, amt, frm, to) ==
    LET r0 == [i \in 0 .. n - 1 |-> 0]
        r1 == [r0 EXCEPT ![PyIndex(frm, n)] = -amt]
        r2 == [r1 EXCEPT ![PyIndex(to, n)] = amt]
    IN  r2

\* candidate_balance = self.running_balance + record
candidate_of(rb, record) == secure_add(rb, record)

\* neg_check = 1 - (candidate_balance < self.zeros).sum(0).expand(n)
neg_check_of(candidate, zs, n) ==
    plain_minus(1, expand(secure_sum(secure_less_than(candidate, zs)), n))

\* record = record * neg_check
masked_record(record, nc) == secure_multiply(record, nc)

\* balance = transactions[0]; for t in transactions[1:]: balance = balance + t
RECURSIVE fold_balances(_, _)
fold_balances(txs, k) ==
    IF k = 1 THEN txs[1] ELSE secure_add(fold_balances(txs, k - 1), txs[k])

compute_balances(txs) == fold_balances(txs, Len(txs))

\* the record transact appends for a call on a ledger in the given state
appended_record(rb, zs, ws, n, amt, frm, to) ==
    LET record == share(transact_record(n, amt, frm, to), ws)
        candidate == candidate_of(rb, record)
    IN  masked_record(record, neg_check_of(candidate, zs, n))

\* self.transactions.append(record)
appended_log_dropping_zero(txs, record) ==
    IF \A i \in DOMAIN record.enc : record.enc[i] = 0
    THEN txs ELSE Append(txs, record)

appended_log(txs, record) == Append(txs, record)

\* self.running_balance = self.running_balance + record
advanced_balance_sub(rb, record) == secure_sub(rb, record)

advanced_balance(rb, record) == secure_add(rb, record)

\* how a transact call ends when no step of the engine fails: the only
\* statements of transact that raise are the two indexed assignments
transact_outcome_raising(rb, n, amt, frm, to) ==
    IF ~(IndexOk(frm, n) /\ IndexOk(to, n)) THEN "IndexError"
    ELSE IF decode(rb.enc[PyIndex(frm, n)]) < amt THEN "InsufficientFunds"
    ELSE "returned"

transact_outcome(rb, n, amt, frm, to) ==
    IF IndexOk(frm, n) /\ IndexOk(to, n) THEN "returned" ELSE "IndexError"

----------------------------------------------------------------------------
(* The callers' frames. *)

NoFrame(zs) ==
    [amt |-> 0, frm |-> 0, to |-> 0, plain |-> get(zs), record |-> zs,
     candidate_balance |-> zs, neg_check |-> zs, sum |-> zs]

Snapshot == [transactions |-> transactions, running_balance |-> running_balance]

Ended(op, amt, frm, to, status) ==
    [op |-> op, amt |-> amt, frm |-> frm, to |-> to, status |-> status]

----------------------------------------------------------------------------
(* A DecentralizedLedger as a value: the fields __init__ leaves, and what one *)
(* transact call makes of them.                                              *)

DecentralizedLedger(ws, n, sb) ==
    LET ib == share(initial_balances(n, sb), ws)
    IN  [owners |-> ws,
         transactions |-> <<ib>>,
         num_accounts |-> n,
         zeros |-> secure_sub(ib, ib),
         running_balance |-> compute_balances(<<ib>>),
         status |-> "returned"]

transact_on(L, amt, frm, to) ==
    LET status == transact_outcome(L.running_balance, L.num_accounts, amt, frm, to)
        record == appended_record(L.running_balance, L.zeros, L.owners,
                                  L.num_accounts, amt, frm, to)
    IN  IF status = "returned"
        THEN [L EXCEPT !.transactions = appended_log(@, record),
                       !.running_balance = advanced_balance(@, record),
                       !.status = status]
        ELSE [L EXCEPT !.status = status]

----------------------------------------------------------------------------
(* SimpleLedger (step 2): the same ledger on plain tensors.  Its values are  *)
(* 64-bit integers, which the amounts and the number of calls of this model  *)
(* never come near, so they are plain integers here.                         *)

RECURSIVE simple_fold(_, _, _)
simple_fold(txs, k, balance) ==
    IF k > Len(txs) THEN balance
    ELSE simple_fold(txs, k + 1, [i \in DOMAIN balance |-> balance[i] + txs[k][i]])

\* balance = self.transactions[0]; for t in self.transactions[1:]: balance = balance + t
simple_compute_balances(txs) == simple_fold(txs, 2, txs[1])

SimpleLedger(n, sb) ==
    [transactions |-> <<initial_balances(n, sb)>>,
     num_accounts |-> n,
     running_balance |-> simple_compute_balances(<<initial_balances(n, sb)>>),
     status |-> "returned"]

\* candidate_balance = self.running_balance + record
simple_candidate(rb, record) == [i \in DOMAIN rb |-> rb[i] + record[i]]

\* a mask that is 0 as soon as one entry is negative
simple_neg_check_clamped(candidate) ==
    IF \E i \in DOMAIN candidate : candidate[i] < 0 THEN 0 ELSE 1

\* neg_check = 1 - (candidate_balance < 0).sum()
simple_neg_check(candidate) ==
    1 - Cardinality({i \in DOMAIN candidate : candidate[i] < 0})

\* record = record * neg_check
simple_masked(record, nc) == [i \in DOMAIN record |-> record[i] * nc]

simple_record(S, amt, frm, to) ==
    LET record == transact_record(S.num_accounts, amt, frm, to)
    IN  simple_masked(record,
                      simple_neg_check(simple_candidate(S.running_balance, record)))

simple_transact(S, amt, frm, to) ==
    IF IndexOk(frm, S.num_accounts) /\ IndexOk(to, S.num_accounts)
    THEN LET record == simple_record(S, amt, frm, to)
         IN  [S EXCEPT !.transactions = Append(@, record),
                       !.running_balance = simple_candidate(@, record),
                       !.status = "returned"]
    ELSE [S EXCEPT !.status = "IndexError"]

----------------------------------------------------------------------------
(* DecentralizedLedger.__init__ *)

\* the ledger built with n accounts of sb each, next to a second ledger built
\* with sb2 each and a SimpleLedger built like the first
Start(n, sb, sb2) ==
        LET ib == share(initial_balances(n, sb), Workers)
            zs == secure_sub(ib, ib)
        IN  /\ twin = DecentralizedLedger(Workers, n, sb2)
            /\ simple = SimpleLedger(n, sb)
            /\ transactions = <<ib>>
            /\ owners = Workers
            /\ num_accounts = n
            /\ zeros = zs
            /\ running_balance = compute_balances(<<ib>>)
            /\ pc = [t \in Threads |-> "idle"]
            /\ frame = [t \in Threads |-> NoFrame(zs)]
            /\ call = Ended("init", 0, 0, 0, "returned")
            /\ pre = [transactions |-> <<ib>>,
                      running_balance |-> compute_balances(<<ib>>)]
            /\ ret = compute_balances(<<ib>>)
            /\ ncalls = 0

Init == \E n \in AccountCounts, sb \in StartingBalances : Start(n, sb, sb)

(* DecentralizedLedger.transact, run from its first line to its last by one  *)
(* caller.  An index out of range raises IndexError at the record's          *)
(* assignment, before anything of the ledger is touched.                     *)
transact_ledger(amt, frm, to) ==
    /\ \A t \in Threads : pc[t] = "idle"
    /\ ncalls < MaxCalls
    /\ ncalls' = ncalls + 1
    /\ pre' = Snapshot
    /\ call' = Ended("transact", amt, frm, to,
                     transact_outcome(running_balance, num_accounts, amt, frm, to))
    /\ IF call'.status = "returned"
       THEN LET record == appended_record(running_balance, zeros, owners,
                                          num_accounts, amt, frm, to)
            IN  /\ transactions' = appended_log(transactions, record)
                /\ running_balance' = advanced_balance(running_balance, record)
       ELSE UNCHANGED <<transactions, running_balance>>
    /\ UNCHANGED <<owners, num_accounts, zeros, pc, frame, ret>>

transact(amt, frm, to) ==
    /\ transact_ledger(amt, frm, to)
    /\ UNCHANGED <<twin, simple>>

(* A call of DecentralizedLedger.compute_balances by a caller. *)
compute_balances_call_in_place ==
    /\ \A t \in Threads : pc[t] = "idle"
    /\ ncalls < MaxCalls
    /\ ncalls' = ncalls + 1
    /\ pre' = Snapshot
    /\ ret' = compute_balances(transactions)
    /\ transactions' = [transactions EXCEPT ![1] = compute_balances(transactions)]
    /\ call' = Ended("compute_balances", 0, 0, 0, "returned")
    /\ UNCHANGED <<owners, num_accounts, zeros, running_balance, pc, frame>>
    /\ UNCHANGED <<twin, simple>>

compute_balances_call ==
    /\ \A t \in Threads : pc[t] = "idle"
    /\ ncalls < MaxCalls
    /\ ncalls' = ncalls + 1
    /\ pre' = Snapshot
    /\ ret' = compute_balances(transactions)
    /\ call' = Ended("compute_balances", 0, 0, 0, "returned")
    /\ UNCHANGED <<ledger, pc, frame>>
    /\ UNCHANGED <<twin, simple>>

\* amt of the calls of callers that pass any account index
CallAmounts == 0 .. 3

Next ==
    \/ \E amt \in CallAmounts, frm \in Indices(num_accounts),
          to \in Indices(num_accounts) : transact(amt, frm, to)
    \/ compute_balances_call

Spec == Init /\ [][Next]_vars

(* The callers that pass account indices of the ledger only. *)
NextValid ==
    \/ \E amt \in Amounts, frm \in 0 .. num_accounts - 1,
          to \in 0 .. num_accounts - 1 : transact(amt, frm, to)
    \/ compute_balances_call

(* Two DecentralizedLedgers of the same num_accounts and different starting  *)
(* balances, given the same transact calls.                                  *)
PairAccounts == {2}
PairAmounts == 1 .. 2

InitPair ==
    \E n \in PairAccounts, sb \in StartingBalances, sb2 \in StartingBalances :
        sb # sb2 /\ Start(n, sb, sb2)

transact_pair(amt, frm, to) ==
    /\ transact_ledger(amt, frm, to)
    /\ twin' = transact_on(twin, amt, frm, to)
    /\ UNCHANGED simple

NextPair ==
    \E amt \in PairAmounts, frm \in Indices(num_accounts),
       to \in Indices(num_accounts) : transact_pair(amt, frm, to)

SpecPair == InitPair /\ [][NextPair]_vars

(* A DecentralizedLedger and a SimpleLedger built alike and given the same   *)
(* transact calls.                                                           *)
PlainAmounts == {1, 3}

transact_both(amt, frm, to) ==
    /\ transact_ledger(amt, frm, to)
    /\ simple' = simple_transact(simple, amt, frm, to)
    /\ UNCHANGED twin

NextPlain ==
    \E amt \in PlainAmounts, frm \in Indices(num_accounts),
       to \in Indices(num_accounts) : transact_both(amt, frm, to)

SpecPlain == Init /\ [][NextPlain]_vars

(* The constructor as a call: before it there is no ledger.  __init__ has no *)
(* check of its arguments; what can end it early is the tensor library, on a *)
(* negative size in line 397, and the engine, in the share of line 398.  How *)
(* the engine takes an empty tensor or no workers at all is not known, so    *)
(* both of its answers are possible.                                         *)
NewAccountCounts == -1 .. 2
NewAmounts == {1}

NoLedger == DecentralizedLedger({}, 0, 0)

Ready == Len(transactions) > 0

InitNew ==
    /\ transactions = <<>>
    /\ owners = {}
    /\ num_accounts = 0
    /\ zeros = NoLedger.zeros
    /\ running_balance = NoLedger.running_balance
    /\ pc = [t \in Threads |-> "idle"]
    /\ frame = [t \in Threads |-> NoFrame(NoLedger.zeros)]
    /\ call = Ended("none", 0, 0, 0, "returned")
    /\ pre = [transactions |-> <<>>, running_balance |-> NoLedger.running_balance]
    /\ ret = NoLedger.running_balance
    /\ ncalls = 0
    /\ twin = NoLedger
    /\ simple = SimpleLedger(0, 0)

new_outcomes(ws, n) ==
    IF n < 0 THEN {"RuntimeError"}
    ELSE IF n = 0 \/ ws = {} THEN {"returned", "EngineError"}
    ELSE {"returned"}

new(ws, n, sb) ==
    /\ call.op = "none"
    /\ \E status \in new_outcomes(ws, n) :
           /\ call' = Ended("new", 0, 0, 0, status)
           /\ IF status = "returned"
              THEN LET L == DecentralizedLedger(ws, n, sb)
                   IN  /\ owners' = L.owners
                       /\ transactions' = L.transactions
                       /\ num_accounts' = L.num_accounts
                       /\ zeros' = L.zeros
                       /\ running_balance' = L.running_balance
                       /\ frame' = [t \in Threads |-> NoFrame(L.zeros)]
                       /\ ret' = L.running_balance
              ELSE UNCHANGED <<ledger, frame, ret>>
    /\ pre' = Snapshot
    /\ UNCHANGED <<pc, ncalls, twin, simple>>

NextNew ==
    \/ \E ws \in SUBSET Workers, n \in NewAccountCounts, sb \in StartingBalances :
           new(ws, n, sb)
    \/ \E amt \in NewAmounts, frm \in Indices(num_accounts),
          to \in Indices(num_accounts) : Ready /\ transact(amt, frm, to)
    \/ Ready /\ compute_balances_call

SpecNew == InitNew /\ [][NextNew]_vars

SpecValid == Init /\ [][NextValid]_vars

----------------------------------------------------------------------------
(* transact line by line, for a caller t: each step of the engine is a call  *)
(* that blocks on the workers, so another caller can run between two lines,  *)
(* and any of them can raise.                                                *)

Return(t, status) ==
    /\ call' = Ended("transact", frame[t].amt, frame[t].frm, frame[t].to, status)
    /\ pc' = [pc EXCEPT ![t] = "idle"]
    /\ frame' = [frame EXCEPT ![t] = NoFrame(zeros)]

\* lines 407-409: the plain record
Begin(t, amt, frm, to) ==
    /\ pc[t] = "idle"
    /\ ncalls < MaxCalls
    /\ ncalls' = ncalls + 1
    /\ pre' = Snapshot
    /\ IF transact_outcome(running_balance, num_accounts, amt, frm, to) = "returned"
       THEN /\ frame' = [frame EXCEPT ![t] =
                            [NoFrame(zeros) EXCEPT
                                !.amt = amt, !.frm = frm, !.to = to,
                                !.plain = transact_record(num_accounts, amt, frm, to)]]
            /\ pc' = [pc EXCEPT ![t] = "l411"]
            /\ UNCHANGED call
       ELSE /\ call' = Ended("transact", amt, frm, to,
                             transact_outcome(running_balance, num_accounts,
                                              amt, frm, to))
            /\ UNCHANGED <<pc, frame>>
    /\ UNCHANGED <<ledger, ret>>
    /\ UNCHANGED <<twin, simple>>

\* line 411: record = record.share(*self.owners)
Line411(t) ==
    /\ pc[t] = "l411"
    /\ frame' = [frame EXCEPT ![t].record = share(frame[t].plain, owners)]
    /\ pc' = [pc EXCEPT ![t] = "l413"]
    /\ UNCHANGED <<ledger, call, pre, ret, ncalls>>
    /\ UNCHANGED <<twin, simple>>

\* line 413: candidate_balance = self.running_balance + record
Line413(t) ==
    /\ pc[t] = "l413"
    /\ frame' = [frame EXCEPT ![t].candidate_balance =
                     candidate_of(running_balance, frame[t].record)]
    /\ pc' = [pc EXCEPT ![t] = "l414"]
    /\ UNCHANGED <<ledger, call, pre, ret, ncalls>>
    /\ UNCHANGED <<twin, simple>>

\* line 414: neg_check = 1 - (candidate_balance < self.zeros).sum(0).expand(n)
Line414(t) ==
    /\ pc[t] = "l414"
    /\ frame' = [frame EXCEPT ![t].neg_check =
                     neg_check_of(frame[t].candidate_balance, zeros, num_accounts)]
    /\ pc' = [pc EXCEPT ![t] = "l416"]
    /\ UNCHANGED <<ledger, call, pre, ret, ncalls>>
    /\ UNCHANGED <<twin, simple>>

\* line 416: record = record * neg_check
Line416(t) ==
    /\ pc[t] = "l416"
    /\ frame' = [frame EXCEPT ![t].record =
                     masked_record(frame[t].record, frame[t].neg_check)]
    /\ pc' = [pc EXCEPT ![t] = "l418"]
    /\ UNCHANGED <<ledger, call, pre, ret, ncalls>>
    /\ UNCHANGED <<twin, simple>>

\* line 418: self.transactions.append(record)
Line418(t) ==
    /\ pc[t] = "l418"
    /\ transactions' = appended_log(transactions, frame[t].record)
    /\ pc' = [pc EXCEPT ![t] = "l419"]
    /\ UNCHANGED <<owners, num_accounts, zeros, running_balance, frame,
                   call, pre, ret, ncalls>>
    /\ UNCHANGED <<twin, simple>>

\* line 419, the right-hand side: self.running_balance + record
Line419Add(t) ==
    /\ pc[t] = "l419"
    /\ frame' = [frame EXCEPT ![t].sum =
                     advanced_balance(running_balance, frame[t].record)]
    /\ pc' = [pc EXCEPT ![t] = "l419store"]
    /\ UNCHANGED <<ledger, call, pre, ret, ncalls>>
    /\ UNCHANGED <<twin, simple>>

\* line 419, the assignment to self.running_balance, and the return
Line419Store(t) ==
    /\ pc[t] = "l419store"
    /\ running_balance' = frame[t].sum
    /\ Return(t, "returned")
    /\ UNCHANGED <<transactions, owners, num_accounts, zeros, pre, ret, ncalls>>
    /\ UNCHANGED <<twin, simple>>

\* the lines that call the engine: share, add, compare and sum, multiply, add
EngineLines == {"l411", "l413", "l414", "l416", "l419"}

\* the engine raises in the line the caller stands before: the exception
\* leaves transact, which has no handler
Fail(t) ==
    /\ pc[t] \in EngineLines
    /\ Return(t, "SecureProtocolFailure")
    /\ UNCHANGED <<ledger, pre, ret, ncalls>>
    /\ UNCHANGED <<twin, simple>>

Lines(t) ==
    \/ Line411(t)
    \/ Line413(t)
    \/ Line414(t)
    \/ Line416(t)
    \/ Line418(t)
    \/ Line419Add(t)
    \/ Line419Store(t)

(* One caller, and an engine that can fail. *)
NextFail ==
    \/ \E amt \in Amounts, frm \in Indices(num_accounts),
          to \in Indices(num_accounts) : Begin(1, amt, frm, to)
    \/ Lines(1)
    \/ Fail(1)

SpecFail == Init /\ [][NextFail]_vars

(* Several callers of one ledger, each moving an amount between two accounts, *)
(* and an engine that does not fail.                                          *)
ConcAmounts == 1 .. 2

NextConc ==
    \E t \in Threads :
        \/ \E amt \in ConcAmounts, frm \in 0 .. num_accounts - 1,
              to \in 0 .. num_accounts - 1 : frm # to /\ Begin(t, amt, frm, to)
        \/ Lines(t)

SpecConc == Init /\ [][NextConc]_vars

----------------------------------------------------------------------------
(* What the claims speak of. *)

Accounts == 0 .. num_accounts - 1

ZeroVector == [i \in Accounts |-> 0]

Total(v) == SumTo(v, num_accounts - 1)

\* the revealed entries of slot i of the log's first k entries, added up
RECURSIVE EntrySum(_, _)
EntrySum(i, k) ==
    IF k = 0 THEN 0 ELSE decode(transactions[k].enc[i]) + EntrySum(i, k - 1)

\* the element-wise sum of the log, in the domain the balances live in
LogSum == [i \in Accounts |-> decode(EntrySum(i, Len(transactions)) % Field)]

LastRecord == transactions[Len(transactions)]

TransactReturned == call.op = "transact" /\ call.status = "returned"

\* a call whose indices are account indices of the ledger, 0 .. num_accounts - 1
ArgsInRange == call.frm \in Accounts /\ call.to \in Accounts

Quiescent == \A t \in Threads : pc[t] = "idle"

\* the ledger was created with a non-negative starting balance
SeededNonNegative == \A i \in Accounts : get(transactions[1])[i] >= 0

\* the candidate balance the last transact call computed
LastCandidate ==
    get(candidate_of(pre.running_balance,
                     share(transact_record(num_accounts, call.amt, call.frm, call.to),
                           owners)))

----------------------------------------------------------------------------
\* C1: after construction and after every completed call, compute_balances()
\* equals the element-wise sum of the entries of the log (in the balances'
\* domain) and equals running_balance.
C1_CacheCoherence ==
    /\ get(compute_balances(transactions)) = LogSum
    /\ compute_balances(transactions) = running_balance

\* an accepted transfer followed by a rejected one
C1_Witness ==
    /\ TransactReturned
    /\ Len(transactions) = 3
    /\ get(transactions[2]) # ZeroVector
    /\ call.amt > 0
    /\ get(LastRecord) = ZeroVector

\* C2: on a ledger created with a non-negative starting balance every revealed
\* balance is >= 0 in every reachable state.
C2_NonNegative ==
    SeededNonNegative => \A i \in Accounts : get(running_balance)[i] >= 0

\* C3: the record appended by a transact call (amt > 0, frm = to included)
\* sums to zero, and the call leaves the total balance over all accounts as it
\* was, so that the total stays what it was at construction.
C3_Conservation ==
    (SeededNonNegative /\ TransactReturned /\ call.amt > 0)
        => /\ Total(get(LastRecord)) = 0
           /\ Total(get(running_balance)) = Total(get(pre.running_balance))

\* C4: for amt > 0 and frm # to, both account indices, transact moves amt from
\* frm to to when running_balance[frm] >= amt and changes no balance when
\* running_balance[frm] < amt; no other account changes.  (Nothing is asked
\* here of a sufficient transfer that would take running_balance[to] out of
\* the domain.)
C4_CommitIffSufficient ==
    (/\ TransactReturned
     /\ ArgsInRange
     /\ call.amt > 0
     /\ call.frm # call.to)
        => LET before == get(pre.running_balance)
               after == get(running_balance)
           IN  IF before[call.frm] >= call.amt
               THEN before[call.to] + call.amt < Half
                        => after = [before EXCEPT
                                       ![call.frm] = before[call.frm] - call.amt,
                                       ![call.to] = before[call.to] + call.amt]
               ELSE after = before

\* C5: a transfer of more than running_balance[frm] leaves running_balance and
\* compute_balances() as they were, each time it is submitted.
C5_RejectionIdempotent ==
    (/\ SeededNonNegative
     /\ TransactReturned
     /\ ArgsInRange
     /\ call.amt > 0
     /\ call.amt > get(pre.running_balance)[call.frm])
        => /\ running_balance = pre.running_balance
           /\ compute_balances(transactions) = compute_balances(pre.transactions)

\* C6: whenever the candidate balance has a negative entry, the record transact
\* appends is the all-zero vector of length num_accounts.
C6_MaskedRecordIsZero ==
    (/\ TransactReturned
     /\ ArgsInRange
     /\ call.amt > 0
     /\ call.frm # call.to
     /\ \E i \in Accounts : LastCandidate[i] < 0)
        => get(LastRecord) = ZeroVector

\* C7: when a step of the engine fails inside transact, the call fails and the
\* log and running_balance are as they were before the call.
C7_FailureIsAtomic ==
    (/\ SeededNonNegative
     /\ Quiescent
     /\ call.op = "transact"
     /\ call.status = "SecureProtocolFailure")
        => /\ transactions = pre.transactions
           /\ running_balance = pre.running_balance

\* C8: when the concurrent transact calls have all returned, running_balance
\* is the sum of the log and, on a ledger seeded with non-negative balances,
\* no balance is negative, as after any sequential order of the calls.
C8_ConcurrentCallsSerialize ==
    (SeededNonNegative /\ Quiescent)
        => /\ running_balance = compute_balances(transactions)
           /\ \A i \in Accounts : get(compute_balances(transactions))[i] >= 0

\* C9: the log is append-only: entry 0 is the initial balance vector, no entry
\* is ever changed, removed or reordered, a completed transact call makes the
\* log one entry longer and compute_balances leaves it alone.
C9_AppendOnly ==
    /\ transactions[1] =
           share(initial_balances(num_accounts, decode(transactions[1].enc[0])), owners)
    /\ [][/\ Len(transactions') >= Len(transactions)
          /\ \A k \in 1 .. Len(transactions) : transactions'[k] = transactions[k]
          /\ (call'.op = "transact" /\ call'.status = "returned")
                 => Len(transactions') = Len(transactions) + 1
          /\ call'.op = "compute_balances" => transactions' = transactions]_vars

\* two completed transact calls, the second one rejected: the log holds the
\* seed and both records
C9_Witness ==
    /\ TransactReturned
    /\ ncalls = 2
    /\ Len(pre.transactions) = 2
    /\ Len(transactions) = 3
    /\ get(LastRecord) = ZeroVector
    /\ call.amt # 0

\* C10: for account indices in range and amt > 0, transact returns normally
\* whether the transfer was committed or zeroed: insufficient funds raise
\* nothing.
C10_SilentRejection ==
    (call.op = "transact" /\ ArgsInRange /\ call.amt > 0)
        => call.status = "returned"

\* a transfer of more than frm holds has returned, and its record is zero
C10_Witness ==
    /\ TransactReturned
    /\ ArgsInRange
    /\ call.frm # call.to
    /\ get(pre.running_balance)[call.frm] >= 0
    /\ call.amt > get(pre.running_balance)[call.frm]
    /\ get(LastRecord) = ZeroVector
    /\ running_balance = pre.running_balance

----------------------------------------------------------------------------
\* the mask the last transact call computed
LastMask ==
    get(neg_check_of(candidate_of(pre.running_balance,
                                  share(transact_record(num_accounts, call.amt,
                                                        call.frm, call.to),
                                        owners)),
                     zeros, num_accounts))

\* C11: transact with amt <= 0 fails (InvalidAmount) and leaves the log and
\* running_balance unchanged; a negative amt never moves funds from to to frm.
C11_InvalidAmountRejected ==
    (/\ SeededNonNegative
     /\ call.op = "transact"
     /\ ArgsInRange
     /\ call.frm # call.to
     /\ call.amt <= 0)
        => /\ call.status # "returned"
           /\ transactions = pre.transactions
           /\ running_balance = pre.running_balance

\* C12: transact with frm or to outside 0 .. num_accounts - 1, negative indices
\* included, fails (InvalidAccountIndex) and leaves the log and running_balance
\* unchanged.
C12_InvalidIndexRejected ==
    (/\ SeededNonNegative
     /\ call.op = "transact"
     /\ call.amt > 0
     /\ call.frm # call.to
     /\ ~ArgsInRange)
        => /\ call.status # "returned"
           /\ transactions = pre.transactions
           /\ running_balance = pre.running_balance

\* C14: the mask applied to the record is 0 or 1, and it is 1 iff every entry
\* of running_balance + record is >= 0, whatever the starting balance and the
\* number of negative entries.
C14_MaskDomain ==
    (TransactReturned /\ ArgsInRange /\ call.amt > 0 /\ call.frm # call.to)
        => \A i \in Accounts :
               /\ LastMask[i] \in {0, 1}
               /\ LastMask[i] = 1 <=> \A j \in Accounts : LastCandidate[j] >= 0

\* C15: transact(amt, i, i) builds an all-zero record and leaves every balance,
\* account i's included, unchanged.
C15_SelfTransferNoOp ==
    (/\ SeededNonNegative
     /\ TransactReturned
     /\ ArgsInRange
     /\ call.amt > 0
     /\ call.frm = call.to)
        => /\ transact_record(num_accounts, call.amt, call.frm, call.to) = ZeroVector
           /\ get(LastRecord) = ZeroVector
           /\ get(running_balance) = get(pre.running_balance)

\* C16: at every point where another caller can read the ledger, also between
\* two lines of a running transact, running_balance is the sum of the log.
C16_NoPartialUpdate ==
    (SeededNonNegative /\ \E t \in Threads : pc[t] # "idle" /\ pc[(3 - t)] = "idle")
        => running_balance = compute_balances(transactions)

\* C18: a transfer whose amt takes running_balance[to] + amt or
\* running_balance[frm] - amt out of the signed domain is masked to the
\* all-zero record and leaves all balances unchanged.
C18_OverflowRejected ==
    (/\ SeededNonNegative
     /\ TransactReturned
     /\ ArgsInRange
     /\ call.amt > 0
     /\ call.frm # call.to
     /\ \/ get(pre.running_balance)[call.to] + call.amt >= Half
        \/ get(pre.running_balance)[call.frm] - call.amt < -Half)
        => /\ get(LastRecord) = ZeroVector
           /\ running_balance = pre.running_balance

\* C20: a compute_balances() call leaves the log (the seed included),
\* running_balance, the cached zeros, owners and num_accounts unchanged,
\* returns the fold of the log, and returns the same when it is called again.
C20_ComputeBalancesReadOnly ==
    [][(call'.op = "compute_balances" /\ ncalls' # ncalls)
         => /\ ledger' = ledger
            /\ ret' = compute_balances(transactions)
            /\ call.op = "compute_balances" => ret' = ret]_vars

\* compute_balances() called after an accepted transfer
C20_Witness ==
    /\ call.op = "compute_balances"
    /\ ncalls = 2
    /\ Len(transactions) = 2
    /\ get(LastRecord) # ZeroVector
    /\ ret = running_balance
    /\ ret # transactions[1]

----------------------------------------------------------------------------
\* C13: creating a ledger with no owners or with num_accounts <= 0 fails
\* (NoParticipants, InvalidAccountCount): no ledger in the Ready state has an
\* empty owner set or fewer than one account.
C13_ConstructorValidation ==
    Ready => (owners # {} /\ num_accounts > 0)

----------------------------------------------------------------------------
\* the last entry of the second ledger's log, revealed
TwinLastRecord == get(twin.transactions[Len(twin.transactions)])

\* C17: two ledgers of the same num_accounts and different starting balances,
\* given the same transact calls, end every call alike (return or error) and
\* have logs of the same length whose entries have the same shape.
C17_ControlFlowIndistinguishable ==
    /\ call.status = twin.status
    /\ Len(transactions) = Len(twin.transactions)
    /\ \A k \in 1 .. Len(transactions) :
           /\ DOMAIN transactions[k].enc = DOMAIN twin.transactions[k].enc
           /\ transactions[k].owners = twin.transactions[k].owners

\* a transfer one ledger rejected for insufficient funds and the other accepted
C17_Witness ==
    /\ TransactReturned
    /\ ArgsInRange
    /\ call.amt > 0
    /\ call.frm # call.to
    /\ SeededNonNegative
    /\ get(LastRecord) = ZeroVector
    /\ TwinLastRecord # ZeroVector

----------------------------------------------------------------------------
InDomain(v) == \A i \in DOMAIN v : -Half <= v[i] /\ v[i] < Half

\* the revealed DecentralizedLedger equals the SimpleLedger
PlainEqual ==
    /\ call.status = simple.status
    /\ Len(transactions) = Len(simple.transactions)
    /\ \A k \in 1 .. Len(transactions) :
           get(transactions[k]) = simple.transactions[k]
    /\ get(running_balance) = simple.running_balance
    /\ get(compute_balances(transactions)) =
           simple_compute_balances(simple.transactions)

\* C19: built alike and given the same transact calls, the revealed log
\* entries, running_balance and compute_balances() of DecentralizedLedger
\* equal those of SimpleLedger (step 2) after every call.
C19_PlainSharedEquivalence ==
    (/\ SeededNonNegative
     /\ TransactReturned
     /\ ArgsInRange
     /\ call.amt > 0
     /\ call.frm # call.to)
        => PlainEqual

\* C19, amended: a call keeps the two ledgers equal as long as every value the
\* SimpleLedger computes in it (record, candidate, mask, masked record, new
\* running balance) lies in the signed domain of the shared values.
C19_EquivalentWithinDomain ==
    [][LET S == simple
           amt == call'.amt
           frm == call'.frm
           to == call'.to
           record == transact_record(S.num_accounts, amt, frm, to)
           candidate == simple_candidate(S.running_balance, record)
           nc == simple_neg_check(candidate)
       IN  (/\ PlainEqual
            /\ simple'.status = "returned"
               => /\ InDomain(record)
                  /\ InDomain(candidate)
                  /\ -Half <= nc /\ nc < Half
                  /\ InDomain(simple_masked(record, nc))
                  /\ InDomain(simple'.running_balance))
               => PlainEqual']_vars

\* two transfers within the domain, the second one masked by both ledgers
C19_Witness ==
    /\ PlainEqual
    /\ SeededNonNegative
    /\ TransactReturned
    /\ ArgsInRange
    /\ call.amt > 0
    /\ call.frm # call.to
    /\ Len(transactions) = 3
    /\ simple.transactions[2] # ZeroVector
    /\ simple.transactions[3] = ZeroVector
    /\ InDomain(simple.running_balance)

====
